---------------------------- MODULE Spec2Model ----------------------------
(* Job orchestration of the confirmation parsers backend:                  *)
(*   JobManager       (src/backend/src/utils/job_manager.py)               *)
(*   GlobalWorkerPool (src/backend/src/utils/worker_pool.py)               *)
(*   ConfirmationParser.parse_confirmation_file                            *)
(*                    (src/backend/src/parsers/confirmation_parser.py)     *)
(* Three specifications share the variables:                               *)
(*   Spec       the pool started by one thread, jobs submitted, the        *)
(*              workers' pipelines and status polls, interleaved;          *)
(*   StoreSpec  the JobManager alone, its methods called in any order;     *)
(*   StartSpec  GlobalWorkerPool.start() called from several threads.      *)
EXTENDS Integers, Sequences, FiniteSets, TLC

----------------------------------------------------------------------------
(* Bounds of the model. *)

\* jobs created in one run
MaxJobs == 2
\* pages of an uploaded document
MaxDocPages == 2
\* num_workers the pool is constructed with
NumWorkers == 2
\* threads that call start() in StartSpec
NumCallers == 3
\* jobs created in StoreSpec
MaxStoreJobs == 1
\* largest total_time handed to complete_job in StoreSpec
MaxTime == 1
MaxTransactions == 2
\* cap of processed_pages in StoreSpec: one above every total_pages
MaxProcessed == MaxDocPages + 1

----------------------------------------------------------------------------
(* Values. *)

\* class Broker(Enum)
Broker == {"robinhood", "fidelity", "unknown"}

\* The five documented values of JobStatus.status.
Statuses == {"queuing", "processing", "completed", "failed", "downloaded"}

\* Python's None for JobStatus.output_filename; every real file name is a
\* non-empty sequence of text pieces.
None == <<>>

\* uuid4().hex: the n-th identifier handed out.  Identifiers are strings so
\* that they can be part of a file name.
JobIdPool == <<"j1", "j2", "j3", "j4">>

\* An identifier no job was created with.
UnknownJobId == "j0"

JobIds == {JobIdPool[i] : i \in 1..MaxJobs}

\* the file names handed to set_output_filename in StoreSpec
OutputNames == {<<"rh_", "01", "_", "02", ".csv">>}

RECURSIVE SeqIndex(_, _)
\* position of x in sequence s, 0 when absent
SeqIndex(s, x) ==
    IF s = <<>> THEN 0
    ELSE IF s[Len(s)] = x THEN Len(s)
    ELSE SeqIndex(SubSeq(s, 1, Len(s) - 1), x)

----------------------------------------------------------------------------
(* JobManager: each method is one critical section of self._lock, given    *)
(* here as the map of jobs after the call.                                 *)

\* JobStatus(total_pages=..., processed_pages=0, status="queuing", total_time=0.0)
JobStatus(total_pages) ==
    [total_pages |-> total_pages, processed_pages |-> 0, status |-> "queuing",
     total_time |-> 0, output_filename |-> None]

create(J, job_id, total_pages) ==
    [j \in DOMAIN J \cup {job_id} |->
        IF j = job_id THEN JobStatus(total_pages) ELSE J[j]]

increment_progress(J, job_id) ==
    IF job_id \in DOMAIN J /\ J[job_id].status = "processing"
    THEN [J EXCEPT ![job_id].processed_pages = @ + 1]
    ELSE J

\* a start_job that leaves the job as it was
start_job_skipped(J, job_id) == J

start_job(J, job_id) ==
    IF job_id \in DOMAIN J
    THEN [J EXCEPT ![job_id].status = "processing"]
    ELSE J

fail_job(J, job_id) ==
    IF job_id \in DOMAIN J
    THEN [J EXCEPT ![job_id].status = "failed"]
    ELSE J

complete_job(J, job_id, total_time) ==
    IF job_id \in DOMAIN J
    THEN [J EXCEPT ![job_id].status = "completed",
                   ![job_id].total_time = total_time]
    ELSE J

set_output_filename(J, job_id, filename) ==
    IF job_id \in DOMAIN J
    THEN [J EXCEPT ![job_id].output_filename = filename]
    ELSE J

set_downloaded(J, job_id) ==
    IF job_id \in DOMAIN J
    THEN [J EXCEPT ![job_id].status = "downloaded"]
    ELSE J

\* dict(self._jobs): a new dict with the keys of the moment of the call whose
\* values are the same JobStatus objects the store goes on mutating.  The
\* copy is therefore its key set; a record is read through it from the store.
get_status(J) == DOMAIN J


----------------------------------------------------------------------------
(* Documents, transaction records and the output file name.                *)

\* ConfirmationParser.num_pages: a file path stands for the document stored
\* there, which the model knows by its number of pages.
num_pages(file_path) == file_path

\* doc[a:]: the 0-based page indices a, a+1, ... of the document, in order
doc_slice(file_path, a) ==
    [i \in 1..(IF num_pages(file_path) > a THEN num_pages(file_path) - a ELSE 0)
        |-> a + i - 1]

\* what a _parse_pdf that forgets the slice would yield: every page
_parse_pdf_whole(file_path, start_page) == doc_slice(file_path, 0)

\* The pages _parse_pdf yields, in order: those of doc[start_page:].
_parse_pdf(file_path, start_page) == doc_slice(file_path, start_page)

\* upload_files: Robinhood documents are read from their second page on.
start_page_of(broker) == IF broker = "robinhood" THEN 1 ELSE 0

\* upload_files: the total_pages a job is created with.
total_pages_of(broker, file_path) ==
    num_pages(file_path) - start_page_of(broker)

\* The brokers a parser was constructed for: the keys of broker_to_parser.
broker_to_parser == {"robinhood", "fidelity"}

\* a lookup that answers some parser for a broker the table does not hold
get_parser_or_default(broker) == TRUE

\* self._broker_to_parser.get(job.broker) is not None
get_parser(broker) == broker \in broker_to_parser

\* Text is a sequence of pieces; the pieces "/", "-" and "_" are single
\* characters and no other piece holds one of them.
RhRecord == [symbol |-> <<"AAPL">>, trade_date |-> <<"01", "/", "02">>]
FidelityRecord == [symbol |-> <<"AAPL">>, date |-> <<"01", "-", "02">>]

\* JSON null (Python None) as a field's value; no text is made of this piece
JsonNull == <<"null">>

\* records the model can answer outside the schema: json.loads checks none
BareRecord == [symbol |-> <<"AAPL">>]
NullDateRecord == [symbol |-> <<"AAPL">>, trade_date |-> JsonNull,
                   date |-> JsonNull]

\* _clean_model_response: json.loads(raw)["data"], the list of records the
\* model answered for a page: none, or one record of the broker's schema.
PageResults(broker) ==
    {<<>>, <<IF broker = "robinhood" THEN RhRecord ELSE FidelityRecord>>}

\* a replace that leaves the text as it is
replace_nothing(s, old, new) == s

\* str.replace(old, new) with a one-character old and new
replace(s, old, new) == [i \in 1..Len(s) |-> IF s[i] = old THEN new ELSE s[i]]

\* dict.get(key, default)
get(rec, key, default) == IF key \in DOMAIN rec THEN rec[key] ELSE default

\* the value has a replace method: it is a str, not None
is_str(v) == v # JsonNull

\* _worker_loop: the output file name, from the broker and the first record.
\* It starts as <job_id>.csv and stays so when the derivation raises
\* (try ... except Exception: pass).
output_file_of(job, transactions) ==
    LET output_file == <<job.job_id, ".csv">>
    IN IF job.broker = "robinhood" /\ transactions # <<>>
       THEN LET date == get(transactions[1], "trade_date", <<"unknown">>)
            IN IF is_str(date)
               THEN <<"rh_">> \o replace(date, "/", "_") \o <<".csv">>
               ELSE output_file
       ELSE IF job.broker = "fidelity" /\ transactions # <<>>
       THEN LET date == get(transactions[1], "date", <<"unknown">>)
            IN IF is_str(date)
               THEN <<"fidelity_">> \o replace(date, "-", "_") \o <<".csv">>
               ELSE output_file
       ELSE output_file

----------------------------------------------------------------------------
(* State. *)

VARIABLES
    _jobs,             \* JobManager._jobs: job id -> JobStatus
    _queue,            \* GlobalWorkerPool._queue: the WorkItems not yet popped
    unfinished_tasks,  \* Queue.unfinished_tasks: put() minus task_done()
    _started,          \* GlobalWorkerPool._started
    _threads,          \* GlobalWorkerPool._threads: idx of each spawned worker
    caller,            \* the threads calling start(): position inside start()
    worker,            \* the worker threads: position inside _worker_loop
    output_dir,        \* the files of the output directory: name -> content
    snapshot,          \* what the last get_status() returned to the poller
    log                \* history of each job, for the properties only

vars == <<_jobs, _queue, unfinished_tasks, _started, _threads, caller, worker,
          output_dir, snapshot, log>>

Workers == 1..NumWorkers
Callers == 1..NumCallers
\* the thread that constructs the pool and starts it
MainThread == CHOOSE c \in Callers : \A d \in Callers : c <= d

\* GlobalParserJob of a worker that holds none
NoJob == [broker |-> "unknown", file_path |-> 0, job_id |-> UnknownJobId,
          start_page |-> 0]

IdleWorker == [pc |-> "get", job |-> NoJob, page |-> 0, transactions |-> <<>>]

NoLog == [broker |-> "unknown",  \* broker of the job's WorkItem
          dequeues |-> 0,        \* times the job's WorkItem was popped
          attempted |-> 0,       \* pages whose parse was begun
          succeeded |-> 0,       \* pages whose parse succeeded
          failed_page |-> 0,     \* 1-based number of the page that failed
          raised |-> <<>>,       \* the pipeline steps that raised
          written |-> FALSE,     \* to_csv wrote a file for the job
          calls |-> <<>>,        \* terminal store calls made by the pipeline
          runs |-> 0]            \* pipeline runs ended (task_done called)

Init ==
    /\ _jobs = <<>>
    /\ _queue = <<>>
    /\ unfinished_tasks = 0
    /\ _started = FALSE
    /\ _threads = <<>>
    /\ caller = [c \in Callers |-> [pc |-> "idle", idx |-> 0]]
    /\ worker = [w \in Workers |-> IdleWorker]
    /\ output_dir = <<>>
    /\ snapshot = {}
    /\ log = <<>>

----------------------------------------------------------------------------
(* Submission and status polling. *)

\* a put that places the item at the head of the queue (a LIFO queue)
enqueue_front(q, job) == <<job>> \o q

\* GlobalWorkerPool.enqueue: Queue.put
enqueue(q, job) == Append(q, job)

\* The submission of one document: create the job, enqueue its WorkItem.
Submit(broker, file_path) ==
    /\ Cardinality(DOMAIN _jobs) < MaxJobs
    /\ LET job_id == JobIdPool[Cardinality(DOMAIN _jobs) + 1]
           job == [broker |-> broker, file_path |-> file_path,
                   job_id |-> job_id, start_page |-> start_page_of(broker)]
       IN /\ _jobs' = create(_jobs, job_id, total_pages_of(broker, file_path))
          /\ _queue' = enqueue(_queue, job)
          /\ unfinished_tasks' = unfinished_tasks + 1
          /\ log' = [j \in DOMAIN log \cup {job_id} |->
                        IF j = job_id THEN [NoLog EXCEPT !.broker = broker]
                        ELSE log[j]]
    /\ UNCHANGED <<_started, _threads, caller, worker, output_dir, snapshot>>

\* The status poller calls get_status().
Poll ==
    /\ snapshot' = get_status(_jobs)
    /\ UNCHANGED <<_jobs, _queue, unfinished_tasks, _started, _threads, caller,
                   worker, output_dir, log>>

----------------------------------------------------------------------------
(* GlobalWorkerPool.start(), one step per access to the shared fields.     *)

\* if self._started: return
StartCheck(c) ==
    /\ caller[c].pc = "idle"
    /\ caller' = [caller EXCEPT ![c].pc = IF _started THEN "idle" ELSE "set"]
    /\ UNCHANGED <<_jobs, _queue, unfinished_tasks, _started, _threads, worker,
                   output_dir, snapshot, log>>

\* self._started = True
StartSet(c) ==
    /\ caller[c].pc = "set"
    /\ _started' = TRUE
    /\ caller' = [caller EXCEPT ![c].pc = "spawn", ![c].idx = 0]
    /\ UNCHANGED <<_jobs, _queue, unfinished_tasks, _threads, worker,
                   output_dir, snapshot, log>>

\* one turn of: for idx in range(self._num_workers): t.start(); append(t)
StartSpawn(c) ==
    /\ caller[c].pc = "spawn"
    /\ caller[c].idx < NumWorkers
    /\ _threads' = Append(_threads, caller[c].idx)
    /\ caller' = [caller EXCEPT
                    ![c].idx = IF @ + 1 = NumWorkers THEN 0 ELSE @ + 1,
                    ![c].pc = IF caller[c].idx + 1 = NumWorkers
                              THEN "idle" ELSE "spawn"]
    /\ UNCHANGED <<_jobs, _queue, unfinished_tasks, _started, worker,
                   output_dir, snapshot, log>>

start(c) == StartCheck(c) \/ StartSet(c) \/ StartSpawn(c)

----------------------------------------------------------------------------
(* GlobalWorkerPool._worker_loop, run by every spawned thread; one step    *)
(* per access to the queue, the store or the output directory.             *)

\* the worker threads start() has spawned so far
Spawned == {w \in Workers : w <= Len(_threads)}

Logged(job_id, field, value) ==
    IF job_id \in DOMAIN log THEN [log EXCEPT ![job_id][field] = value] ELSE log

\* a get() that hands out the first item and leaves it in the queue
queue_peek(q) == q

\* what Queue.get() leaves in the queue
queue_get(q) == Tail(q)

\* job = self._queue.get(): blocks while the queue is empty
Get(w) ==
    /\ w \in Spawned
    /\ worker[w].pc = "get"
    /\ _queue # <<>>
    /\ LET job == Head(_queue)
       IN /\ worker' = [worker EXCEPT ![w] = [pc |-> "start_job", job |-> job,
                                              page |-> job.start_page,
                                              transactions |-> <<>>]]
          /\ log' = Logged(job.job_id, "dequeues", log[job.job_id].dequeues + 1)
    /\ _queue' = queue_get(_queue)
    /\ UNCHANGED <<_jobs, unfinished_tasks, _started, _threads, caller,
                   output_dir, snapshot>>

\* asyncio.run(self._job_manager.start_job(job.job_id))
StartJob(w) ==
    /\ worker[w].pc = "start_job"
    /\ _jobs' = start_job(_jobs, worker[w].job.job_id)
    /\ worker' = [worker EXCEPT ![w].pc = "dispatch"]
    /\ UNCHANGED <<_queue, unfinished_tasks, _started, _threads, caller,
                   output_dir, snapshot, log>>

\* parser_response = self._broker_to_parser.get(job.broker), a parser found
Dispatch(w) ==
    /\ worker[w].pc = "dispatch"
    /\ get_parser(worker[w].job.broker)
    /\ worker' = [worker EXCEPT ![w].pc = "parse"]
    /\ UNCHANGED <<_jobs, _queue, unfinished_tasks, _started, _threads, caller,
                   output_dir, snapshot, log>>

\* parser_response is None: fail_job(job.job_id); continue
DispatchMiss(w) ==
    /\ worker[w].pc = "dispatch"
    /\ ~get_parser(worker[w].job.broker)
    /\ _jobs' = fail_job(_jobs, worker[w].job.job_id)
    /\ worker' = [worker EXCEPT ![w].pc = "finally"]
    /\ log' = Logged(worker[w].job.job_id, "calls",
                     Append(log[worker[w].job.job_id].calls, "fail"))
    /\ UNCHANGED <<_queue, unfinished_tasks, _started, _threads, caller,
                   output_dir, snapshot>>

\* The for loop of parse_confirmation_file has a page left to read: page
\* started at start_page and grew by one with every page read so far.
PageLeft(w) ==
    worker[w].page - worker[w].job.start_page
        < Len(_parse_pdf(worker[w].job.file_path, worker[w].job.start_page))

\* a handler that logs the error and goes on with the next page
after_page_error_continue == "parse"

\* where parse_confirmation_file goes after a page failed in its try block:
\* fail_job was called and all_transactions is returned to the worker loop
after_page_error == "name"

\* One page parsed: the model's records are appended, page += 1,
\* increment_progress(job_id).
ParsePage(w) ==
    /\ worker[w].pc = "parse"
    /\ PageLeft(w)
    /\ \E cleaned_json \in PageResults(worker[w].job.broker) :
          worker' = [worker EXCEPT
                        ![w].transactions = @ \o cleaned_json,
                        ![w].page = @ + 1]
    /\ _jobs' = increment_progress(_jobs, worker[w].job.job_id)
    /\ LET id == worker[w].job.job_id
       IN log' = [log EXCEPT ![id].attempted = @ + 1, ![id].succeeded = @ + 1]
    /\ UNCHANGED <<_queue, unfinished_tasks, _started, _threads, caller,
                   output_dir, snapshot>>

\* The model call or the decoding of its answer raises inside the try block:
\* fail_job(job_id); return all_transactions.
ParsePageError(w) ==
    /\ worker[w].pc = "parse"
    /\ PageLeft(w)
    /\ _jobs' = fail_job(_jobs, worker[w].job.job_id)
    /\ worker' = [worker EXCEPT ![w].pc = after_page_error]
    /\ LET id == worker[w].job.job_id
       IN log' = [log EXCEPT
                    ![id].attempted = @ + 1,
                    ![id].failed_page = log[id].attempted + 1,
                    ![id].raised = Append(@, "page"),
                    ![id].calls = Append(@, "fail")]
    /\ UNCHANGED <<_queue, unfinished_tasks, _started, _threads, caller,
                   output_dir, snapshot>>

\* The generator _parse_pdf raises while the for statement asks it for the
\* page (pymupdf.open or get_text): outside the try block, so the error
\* leaves parse_confirmation_file.
ExtractError(w) ==
    /\ worker[w].pc = "parse"
    /\ PageLeft(w)
    /\ worker' = [worker EXCEPT ![w].pc = "except"]
    /\ LET id == worker[w].job.job_id
       IN log' = [log EXCEPT
                    ![id].attempted = @ + 1,
                    ![id].failed_page = log[id].attempted + 1,
                    ![id].raised = Append(@, "extract")]
    /\ UNCHANGED <<_jobs, _queue, unfinished_tasks, _started, _threads, caller,
                   output_dir, snapshot>>

\* After the last page: await self._job_manager.complete_job(job_id).  The
\* call lacks the required total_time argument, so Python raises TypeError
\* before the method body runs, and the error leaves parse_confirmation_file.
ParseComplete(w) ==
    /\ worker[w].pc = "parse"
    /\ ~PageLeft(w)
    /\ worker' = [worker EXCEPT ![w].pc = "except"]
    /\ log' = Logged(worker[w].job.job_id, "raised",
                     Append(log[worker[w].job.job_id].raised, "complete_job"))
    /\ UNCHANGED <<_jobs, _queue, unfinished_tasks, _started, _threads, caller,
                   output_dir, snapshot>>

\* output_file is derived and set_output_filename(job.job_id, output_file)
SetOutputFilename(w) ==
    /\ worker[w].pc = "name"
    /\ _jobs' = set_output_filename(_jobs, worker[w].job.job_id,
                    output_file_of(worker[w].job, worker[w].transactions))
    /\ worker' = [worker EXCEPT ![w].pc = "to_csv"]
    /\ UNCHANGED <<_queue, unfinished_tasks, _started, _threads, caller,
                   output_dir, snapshot, log>>

\* parser.to_csv(transactions, output_path) writes the file
ToCsv(w) ==
    /\ worker[w].pc = "to_csv"
    /\ LET name == output_file_of(worker[w].job, worker[w].transactions)
           content == [job_id |-> worker[w].job.job_id,
                       transactions |-> worker[w].transactions]
       IN output_dir' = [f \in DOMAIN output_dir \cup {name} |->
                            IF f = name THEN content ELSE output_dir[f]]
    /\ worker' = [worker EXCEPT ![w].pc = "finally"]
    /\ log' = Logged(worker[w].job.job_id, "written", TRUE)
    /\ UNCHANGED <<_jobs, _queue, unfinished_tasks, _started, _threads, caller,
                   snapshot>>

\* parser.to_csv raises (the frame cannot be built or the file not written)
ToCsvError(w) ==
    /\ worker[w].pc = "to_csv"
    /\ worker' = [worker EXCEPT ![w].pc = "except"]
    /\ log' = Logged(worker[w].job.job_id, "raised",
                     Append(log[worker[w].job.job_id].raised, "to_csv"))
    /\ UNCHANGED <<_jobs, _queue, unfinished_tasks, _started, _threads, caller,
                   output_dir, snapshot>>

\* a worker loop whose thread ends with the job that raised
after_except_exit == "exited"

\* where the worker goes once its except clause has run
after_except == "finally"

\* except Exception: asyncio.run(self._job_manager.fail_job(job.job_id))
Except(w) ==
    /\ worker[w].pc = "except"
    /\ _jobs' = fail_job(_jobs, worker[w].job.job_id)
    /\ worker' = [worker EXCEPT ![w].pc = after_except]
    /\ log' = Logged(worker[w].job.job_id, "calls",
                     Append(log[worker[w].job.job_id].calls, "fail"))
    /\ UNCHANGED <<_queue, unfinished_tasks, _started, _threads, caller,
                   output_dir, snapshot>>

\* finally: self._queue.task_done(); then the next turn of while True
Finally(w) ==
    /\ worker[w].pc = "finally"
    /\ unfinished_tasks' = unfinished_tasks - 1
    /\ worker' = [worker EXCEPT ![w] = IdleWorker]
    /\ log' = Logged(worker[w].job.job_id, "runs",
                     log[worker[w].job.job_id].runs + 1)
    /\ UNCHANGED <<_jobs, _queue, _started, _threads, caller, output_dir,
                   snapshot>>

_worker_loop(w) ==
    \/ Get(w) \/ StartJob(w) \/ Dispatch(w) \/ DispatchMiss(w)
    \/ ParsePage(w) \/ ParsePageError(w) \/ ExtractError(w) \/ ParseComplete(w)
    \/ SetOutputFilename(w) \/ ToCsv(w) \/ ToCsvError(w)
    \/ Except(w) \/ Finally(w)

----------------------------------------------------------------------------
(* The running system. *)

Next ==
    \/ \E broker \in Broker, file_path \in 1..MaxDocPages :
          Submit(broker, file_path)
    \/ Poll
    \/ start(MainThread)
    \/ \E w \in Workers : _worker_loop(w)

Spec == Init /\ [][Next]_vars

\* Every spawned worker thread keeps running, and every call it makes returns.
FairSpec == Spec /\ \A w \in Workers : WF_vars(_worker_loop(w))

----------------------------------------------------------------------------
(* start() alone, called by several threads at any time. *)

StartNext == \E c \in Callers : start(c)

StartSpec == Init /\ [][StartNext]_vars

----------------------------------------------------------------------------
(* The JobManager alone: any caller, any method, any argument, any order.  *)

StoreIds == {JobIdPool[i] : i \in 1..MaxStoreJobs} \cup {UnknownJobId}

StoreFrame ==
    UNCHANGED <<_queue, unfinished_tasks, _started, _threads, caller, worker,
                output_dir, log>>

StoreCreate(total_pages) ==
    /\ Cardinality(DOMAIN _jobs) < MaxStoreJobs
    /\ _jobs' = create(_jobs, JobIdPool[Cardinality(DOMAIN _jobs) + 1], total_pages)
    /\ UNCHANGED snapshot /\ StoreFrame

StoreIncrementProgress(job_id) ==
    /\ job_id \in DOMAIN _jobs => _jobs[job_id].processed_pages < MaxProcessed
    /\ _jobs' = increment_progress(_jobs, job_id)
    /\ UNCHANGED snapshot /\ StoreFrame

StoreStartJob(job_id) ==
    /\ _jobs' = start_job(_jobs, job_id)
    /\ UNCHANGED snapshot /\ StoreFrame

\* fail_job called on the store; log remembers the jobs it was applied to
StoreFailJob(job_id) ==
    /\ _jobs' = fail_job(_jobs, job_id)
    /\ log' = IF job_id \in DOMAIN _jobs
                 THEN [j \in DOMAIN log \cup {job_id} |->
                          [NoLog EXCEPT !.calls = <<"fail">>]]
                 ELSE log
    /\ UNCHANGED <<snapshot, _queue, unfinished_tasks, _started, _threads,
                   caller, worker, output_dir>>

StoreCompleteJob(job_id, total_time) ==
    /\ _jobs' = complete_job(_jobs, job_id, total_time)
    /\ UNCHANGED snapshot /\ StoreFrame

StoreSetOutputFilename(job_id, filename) ==
    /\ _jobs' = set_output_filename(_jobs, job_id, filename)
    /\ UNCHANGED snapshot /\ StoreFrame

StoreSetDownloaded(job_id) ==
    /\ _jobs' = set_downloaded(_jobs, job_id)
    /\ UNCHANGED snapshot /\ StoreFrame

StoreGetStatus ==
    /\ snapshot' = get_status(_jobs)
    /\ UNCHANGED _jobs /\ StoreFrame

StoreNext ==
    \/ \E total_pages \in 0..MaxDocPages : StoreCreate(total_pages)
    \/ \E job_id \in StoreIds : StoreIncrementProgress(job_id)
    \/ \E job_id \in StoreIds : StoreStartJob(job_id)
    \/ \E job_id \in StoreIds : StoreFailJob(job_id)
    \/ \E job_id \in StoreIds, total_time \in 1..MaxTime :
          StoreCompleteJob(job_id, total_time)
    \/ \E job_id \in StoreIds, filename \in OutputNames :
          StoreSetOutputFilename(job_id, filename)
    \/ \E job_id \in StoreIds : StoreSetDownloaded(job_id)
    \/ StoreGetStatus

StoreSpec == Init /\ [][StoreNext]_vars

----------------------------------------------------------------------------
(* The naming of the output, from every list of records a parse can hand   *)
(* to the worker loop: the pool is started, one job was dequeued, its      *)
(* first page was parsed into the records and its next page failed, so     *)
(* parse_confirmation_file returned them.                                  *)

NameRecords == {RhRecord, FidelityRecord, BareRecord, NullDateRecord}

NameTransactions == UNION {[1..n -> NameRecords] : n \in 0..MaxTransactions}

NameInit ==
    \E broker \in broker_to_parser, w \in Workers,
       transactions \in NameTransactions :
        LET job_id == JobIdPool[1]
            start_page == start_page_of(broker)
            file_path == start_page + MaxDocPages
            job == [broker |-> broker, file_path |-> file_path,
                    job_id |-> job_id, start_page |-> start_page]
            created == create(<<>>, job_id, total_pages_of(broker, file_path))
        IN /\ _jobs = fail_job(increment_progress(start_job(created, job_id),
                                                  job_id), job_id)
           /\ _queue = <<>>
           /\ unfinished_tasks = 1
           /\ _started = TRUE
           /\ _threads = [i \in 1..NumWorkers |-> i - 1]
           /\ caller = [c \in Callers |-> [pc |-> "idle", idx |-> 0]]
           /\ worker = [v \in Workers |->
                          IF v = w
                          THEN [pc |-> "name", job |-> job,
                                page |-> start_page + 1,
                                transactions |-> transactions]
                          ELSE IdleWorker]
           /\ output_dir = <<>>
           /\ snapshot = {}
           /\ log = (job_id :> [NoLog EXCEPT !.broker = broker,
                                             !.dequeues = 1,
                                             !.attempted = 2,
                                             !.succeeded = 1,
                                             !.failed_page = 2,
                                             !.raised = <<"page">>,
                                             !.calls = <<"fail">>])

NameNext == \E w \in Workers : SetOutputFilename(w) \/ ToCsv(w)

NameSpec == NameInit /\ [][NameNext]_vars

----------------------------------------------------------------------------
(* Properties. *)

\* the jobs whose pipeline run has ended: task_done was called for them
Ended(j) == j \in DOMAIN log /\ log[j].runs >= 1

\* the workers holding job j's WorkItem
Holders(j) == {w \in Workers : worker[w].pc # "get" /\ worker[w].job.job_id = j}

\* the WorkItems of job j waiting in the queue
Queued(j) == {i \in 1..Len(_queue) : _queue[i].job_id = j}

\* C1: in every state reached by submissions, worker pipeline steps and status
\* polls, every job record has processed_pages <= total_pages, and so has
\* every record a poller reads through the dict get_status() returned, whose
\* status is one of the five documented values.
C1_ProcessedWithinTotal ==
    /\ \A j \in DOMAIN _jobs : _jobs[j].processed_pages <= _jobs[j].total_pages
    /\ \A j \in snapshot :
          /\ j \in DOMAIN _jobs
          /\ _jobs[j].processed_pages <= _jobs[j].total_pages
          /\ _jobs[j].status \in Statuses

\* C1 witness: a polled job all of whose pages, more than one, were counted.
C1_Witness ==
    \E j \in snapshot :
        /\ _jobs[j].total_pages >= 2
        /\ _jobs[j].processed_pages = _jobs[j].total_pages

\* C2: the store alone keeps processed_pages <= total_pages, whatever number
\* of increment_progress calls reach a job in status processing.
C2_StoreKeepsProgressWithinTotal ==
    \A j \in DOMAIN _jobs :
        _jobs[j].status = "processing"
            => _jobs[j].total_pages - _jobs[j].processed_pages >= 0

\* the edges of the documented state machine
StatusEdges ==
    {<<"queuing", "processing">>, <<"processing", "completed">>,
     <<"processing", "failed">>, <<"queuing", "failed">>,
     <<"completed", "downloaded">>}

\* C3: every change of a job's status made by a store operation follows an
\* edge of the state machine; another attempt leaves the status as it was.
C3_StatusFollowsEdges ==
    [][\A j \in DOMAIN _jobs :
          _jobs'[j].status # _jobs[j].status
              => <<_jobs[j].status, _jobs'[j].status>> \in StatusEdges]_vars

\* C4: a job of n >= 1 pages with a known broker, all of whose pages were
\* parsed and whose output write did not fail, ends completed with
\* processed_pages = n, an output_filename and total_time > 0.
C4_AllPagesParsedCompletes ==
    \A j \in DOMAIN _jobs :
        ( /\ Ended(j)
          /\ log[j].broker \in broker_to_parser
          /\ _jobs[j].total_pages >= 1
          /\ log[j].succeeded = _jobs[j].total_pages
          /\ log[j].failed_page = 0
          /\ SeqIndex(log[j].raised, "to_csv") = 0 )
        => /\ _jobs[j].status = "completed"
           /\ _jobs[j].processed_pages = _jobs[j].total_pages
           /\ _jobs[j].output_filename # None
           /\ _jobs[j].total_time > 0

\* C5: when page k of a job fails after pages 1..k-1 succeeded, k pages were
\* attempted and no more, processed_pages is k-1 from then on, and the job's
\* pipeline run ends with the job failed.
C5_FailedPageStopsJob ==
    \A j \in DOMAIN _jobs :
        log[j].failed_page >= 1
        => /\ log[j].attempted = log[j].failed_page
           /\ log[j].succeeded = log[j].failed_page - 1
           /\ _jobs[j].processed_pages = log[j].failed_page - 1
           /\ Ended(j) => _jobs[j].status = "failed"

\* C5 witness: a job ended failed on its second page, the first one counted.
C5_Witness ==
    \E j \in DOMAIN _jobs :
        /\ Ended(j)
        /\ log[j].failed_page = 2
        /\ _jobs[j].processed_pages = 1
        /\ _jobs[j].status = "failed"

\* C6: a job failed by a page-processing failure has no output_filename and
\* no file was written for it.
C6_FailedJobHasNoOutput ==
    \A j \in DOMAIN _jobs :
        (_jobs[j].status = "failed" /\ SeqIndex(log[j].raised, "page") > 0)
        => /\ _jobs[j].output_filename = None
           /\ ~log[j].written

\* C7: for a WorkItem whose broker has no entry in the dispatch table no page
\* is ever parsed or counted, no file name set and no file written; once its
\* run has ended the job is failed and no worker holds it.
C7_UnknownBrokerFails ==
    \A j \in DOMAIN _jobs :
        log[j].broker \notin broker_to_parser
        => /\ log[j].attempted = 0
           /\ _jobs[j].processed_pages = 0
           /\ _jobs[j].output_filename = None
           /\ ~log[j].written
           /\ Ended(j) => (_jobs[j].status = "failed" /\ Holders(j) = {})

\* C7 witness: the run of an unknown-broker job has ended, the job is failed
\* and its worker waits at the queue again.
C7_Witness ==
    \E j \in DOMAIN _jobs :
        /\ log[j].broker \notin broker_to_parser
        /\ Ended(j)
        /\ _jobs[j].status = "failed"
        /\ \A w \in Spawned : worker[w].pc = "get"

\* C8: every WorkItem is popped at most once and is either still queued or
\* was popped once; no job is held by two workers, and a job whose run has
\* ended is held by none.
C8_DequeuedExactlyOnce ==
    \A j \in DOMAIN _jobs :
        /\ log[j].dequeues <= 1
        /\ Cardinality(Queued(j)) + log[j].dequeues = 1
        /\ Cardinality(Holders(j)) <= 1
        /\ Cardinality(Holders(j)) + log[j].runs = log[j].dequeues

\* C8 witness: two workers run the pipelines of two different jobs at once.
C8_Witness ==
    \E v, w \in Workers :
        /\ v # w
        /\ worker[v].pc = "parse"
        /\ worker[w].pc = "parse"
        /\ worker[v].job.job_id # worker[w].job.job_id

\* C9: whatever start() calls were made, one after another or overlapping,
\* no more than num_workers threads were spawned, and exactly num_workers
\* once every call has returned.
C9_StartSpawnsOnce ==
    /\ Len(_threads) <= NumWorkers
    /\ (_started /\ \A c \in Callers : caller[c].pc = "idle")
          => Len(_threads) = NumWorkers

\* C10: a job whose pipeline raised is failed when its run ends, the worker
\* being back at the queue; and once workers run, every submitted job is
\* eventually popped once, run to its end and left completed or failed.
C10_FailureNeverStopsWorker ==
    /\ [](\A j \in DOMAIN _jobs :
            (Ended(j) /\ log[j].raised # <<>>)
                => (_jobs[j].status = "failed" /\ Holders(j) = {}))
    /\ \A j \in JobIds :
          (j \in DOMAIN _jobs /\ Spawned # {})
              ~> ( /\ Ended(j)
                   /\ _jobs[j].status \in {"completed", "failed"}
                   /\ Holders(j) = {} )

\* C10 witness: two jobs raised, at the output write and at a page, both runs
\* ended with the job failed, and every worker waits at the queue.
C10_Witness ==
    \E i, j \in DOMAIN _jobs :
        /\ i # j
        /\ Ended(i) /\ SeqIndex(log[i].raised, "to_csv") > 0
        /\ Ended(j) /\ SeqIndex(log[j].raised, "extract") > 0
        /\ _jobs[i].status = "failed" /\ _jobs[j].status = "failed"
        /\ \A w \in Spawned : worker[w].pc = "get"

\* C11: a step that takes a processing job to completed (complete_job) leaves
\* it with a positive total_time and with processed_pages = total_pages,
\* whatever processed_pages was before.
C11_CompleteForcesAllPages ==
    [][\A j \in DOMAIN _jobs :
          (_jobs[j].status = "processing" /\ _jobs'[j].status = "completed")
              => /\ _jobs'[j].total_time > 0
                 /\ _jobs'[j].processed_pages = _jobs'[j].total_pages]_vars

\* C12: a step that sets a job's status to processing (start_job) starts
\* from status queuing; start_job on a job in any other status changes
\* nothing.
C12_StartOnlyFromQueuing ==
    [][\A j \in DOMAIN _jobs :
          (_jobs'[j].status = "processing" /\ _jobs[j].status # "processing")
              => _jobs[j].status = "queuing"]_vars

\* C13: a step that sets a job's status to downloaded (set_downloaded) starts
\* from status completed; on a queuing, processing or failed job the call
\* leaves the status as it was.
C13_DownloadedOnlyFromCompleted ==
    [][\A j \in DOMAIN _jobs :
          (_jobs'[j].status = "downloaded" /\ _jobs[j].status # "downloaded")
              => _jobs[j].status = "completed"]_vars

\* the records a poller reads through the dict get_status() returned to it
SnapshotView == [j \in snapshot |-> _jobs[j]]

\* C14: the records of a returned snapshot keep the field values of the
\* moment of the call: as long as the poller holds the same snapshot, no
\* later store operation changes what it reads through it.
C14_SnapshotIsPointInTime ==
    [][snapshot' = snapshot => SnapshotView' = SnapshotView]_vars

\* C20: a step changes a job's processed_pages only when the job's status is
\* processing; once fail_job has been applied to a job no later step changes
\* its processed_pages; increment_progress with an unknown job id leaves the
\* store as it is.
C20_IncrementOnlyWhileProcessing ==
    [][/\ \A j \in DOMAIN _jobs :
             /\ _jobs'[j].processed_pages # _jobs[j].processed_pages
                    => _jobs[j].status = "processing"
             /\ (j \in DOMAIN log /\ log[j].calls # <<>>)
                    => _jobs'[j].processed_pages = _jobs[j].processed_pages
       /\ increment_progress(_jobs, UnknownJobId) = _jobs]_vars

\* C15: two jobs submitted for the same file (same broker, same page count)
\* whose output was written have distinct output file names, and the file of
\* each still holds that job's own output.
C15_SameFileTwiceDistinctOutputs ==
    \A i, j \in DOMAIN _jobs :
        (/\ i # j
         /\ log[i].broker = log[j].broker
         /\ _jobs[i].total_pages = _jobs[j].total_pages
         /\ log[i].written /\ log[j].written)
        => /\ _jobs[i].output_filename # _jobs[j].output_filename
           /\ \E f \in DOMAIN output_dir : output_dir[f].job_id = i
           /\ \E f \in DOMAIN output_dir : output_dir[f].job_id = j

\* C16: the pipeline run of one WorkItem makes at most one terminal store call
\* (complete_job or fail_job) for the job, and exactly one by the time the
\* run has ended.
C16_OneTerminalCall ==
    \A j \in DOMAIN _jobs :
        /\ Len(log[j].calls) <= 1
        /\ Ended(j) => Len(log[j].calls) = 1

C19_UnknownBrokerNeverProcessing ==
    \A j \in DOMAIN _jobs :
        log[j].broker \notin broker_to_parser => _jobs[j].status # "processing"

\* the worker w has derived and recorded the output file name of its job
Named(w) == worker[w].pc \in {"to_csv", "finally"}

\* the field of a record that dates the output of a broker
DateField(broker) == IF broker = "robinhood" THEN "trade_date" ELSE "date"

\* name is prefix, then the text d with every piece sep turned into "_",
\* then ".csv"
IsDatedName(name, prefix, d, sep) ==
    /\ Len(name) = Len(d) + 2
    /\ name[1] = prefix
    /\ name[Len(name)] = ".csv"
    /\ \A i \in 1..Len(d) : name[i + 1] = IF d[i] = sep THEN "_" ELSE d[i]

\* C17 (as stated): the recorded output file name is rh_<trade_date with "/"
\* turned into "_">.csv for a Robinhood job whose first record carries
\* trade_date, fidelity_<date with "-" turned into "_">.csv for a Fidelity
\* job whose first record carries date, and <job_id>.csv when there are no
\* transactions or the first record is without that field.
C17_NameFallsBackToJobId ==
    \A w \in Workers :
        Named(w) =>
        LET job == worker[w].job
            t == worker[w].transactions
            name == _jobs[job.job_id].output_filename
            field == DateField(job.broker)
        IN IF t # <<>> /\ field \in DOMAIN t[1] /\ t[1][field] # JsonNull
           THEN IsDatedName(name,
                            IF job.broker = "robinhood" THEN "rh_" ELSE "fidelity_",
                            t[1][field],
                            IF job.broker = "robinhood" THEN "/" ELSE "-")
           ELSE name = <<job.job_id, ".csv">>

\* C17 (amended): the recorded output file name depends on the broker, the
\* first record and the job id only.  With at least one transaction whose
\* first record carries the broker's date field as text, or is without the
\* field, it is rh_<d with "/" turned into "_">.csv for Robinhood and
\* fidelity_<d with "-" turned into "_">.csv for Fidelity, where d is the
\* field's text, or "unknown" when the first record is without the field.
\* It is <job_id>.csv when there are no transactions, or when the field's
\* value is null so that deriving the name raises.
C17_NameOfFirstRecord ==
    \A w \in Workers :
        Named(w) =>
        LET job == worker[w].job
            t == worker[w].transactions
            name == _jobs[job.job_id].output_filename
            field == DateField(job.broker)
        IN IF t # <<>> /\ (field \in DOMAIN t[1] => t[1][field] # JsonNull)
           THEN IsDatedName(name,
                            IF job.broker = "robinhood" THEN "rh_" ELSE "fidelity_",
                            IF field \in DOMAIN t[1] THEN t[1][field]
                            ELSE <<"unknown">>,
                            IF job.broker = "robinhood" THEN "/" ELSE "-")
           ELSE name = <<job.job_id, ".csv">>

\* C17 witness: a Robinhood job whose first record is without trade_date and
\* whose second record carries one has the recorded name rh_unknown.csv, and
\* its output was written.
C17_Witness ==
    \E w \in Workers :
        /\ worker[w].pc = "finally"
        /\ worker[w].job.broker = "robinhood"
        /\ worker[w].transactions = <<BareRecord, RhRecord>>
        /\ _jobs[worker[w].job.job_id].output_filename
               = <<"rh_", "unknown", ".csv">>
        /\ log[worker[w].job.job_id].written

\* the place of job j in the order of submission (and so of enqueue)
Order(j) == SeqIndex(JobIdPool, j)

\* C21: of two WorkItems the one enqueued first is dequeued first: whenever
\* the later one has been popped the earlier one has been popped too, and
\* the items waiting in the queue stand in the order of their enqueue,
\* whatever the number of workers.
C21_DequeuedInEnqueueOrder ==
    /\ \A a, b \in DOMAIN _jobs :
          (Order(a) < Order(b) /\ log[b].dequeues >= 1) => log[a].dequeues >= 1
    /\ \A i, k \in 1..Len(_queue) :
          i < k => Order(_queue[i].job_id) < Order(_queue[k].job_id)

\* C21 witness: two jobs were dequeued in the order of their enqueue by two
\* workers, and the run of the later one ended while the earlier one is
\* still being run.
C21_Witness ==
    \E a, b \in DOMAIN _jobs :
        /\ Order(a) < Order(b)
        /\ log[a].dequeues = 1 /\ log[b].dequeues = 1
        /\ Holders(a) # {}
        /\ log[b].runs = 1

C23_ProgressCountsSuccesses ==
    \A j \in DOMAIN _jobs :
        (log[j].broker \in broker_to_parser /\ Holders(j) # {})
        => _jobs[j].processed_pages = log[j].succeeded

\* C23 witness: a worker runs a job whose first page was parsed and counted
\* and whose second page has failed without being counted.
C23_Witness ==
    \E j \in DOMAIN _jobs :
        /\ Holders(j) # {}
        /\ log[j].succeeded = 1
        /\ log[j].failed_page = 2
        /\ _jobs[j].processed_pages = 1
=============================================================================
